---- MODULE Spec2Model ----
(***************************************************************************)
(* Model of src/main.rs: the iced application ImageProcessor (its state,   *)
(* its update handler and handle_file_drop) and the async job              *)
(* process_image (decode, classify, resample, derive the output path,      *)
(* save).                                                                  *)
(*                                                                         *)
(* Text is modelled as a sequence of chunks: a string literal is one       *)
(* chunk, format! concatenates.  A file name is a sequence of atoms; the   *)
(* atom "." is the dot, every other atom is a dot-free run of bytes, and   *)
(* BAD is a dot-free run of bytes that is not valid UTF-8.  A path is the  *)
(* sequence of its components.                                             *)
(***************************************************************************)
EXTENDS Integers, Sequences, FiniteSets, TLC

VARIABLES message, processed_image, is_processing, jobs, fs

vars == <<message, processed_image, is_processing, jobs, fs>>

----------------------------------------------------------------------------
(* Bounds *)

MaxJobs == 2
MaxNameLen == 3

----------------------------------------------------------------------------
(* Option values *)

None == [some |-> FALSE]
Some(x) == [some |-> TRUE, v |-> x]

----------------------------------------------------------------------------
(* Paths (std::path as used at main.rs:130 and main.rs:174-182) *)

DOT == "."
BAD == "\\xFF"
RootDir == <<"/">>
ParentDir == <<DOT, DOT>>

Last(s) == s[Len(s)]
Front(s) == SubSeq(s, 1, Len(s) - 1)

\* Path::file_name: the last component when it is a normal one
file_name(path) ==
    IF path = <<>> THEN None
    ELSE IF Last(path) = RootDir \/ Last(path) = ParentDir THEN None
    ELSE Some(Last(path))

\* position of the last dot of a file name, 0 when it has none
LastDot(name) ==
    LET dots == {i \in 1..Len(name) : name[i] = DOT}
    IN IF dots = {} THEN 0 ELSE CHOOSE i \in dots : \A k \in dots : k <= i

\* Path::file_stem: the name up to its last dot; the whole name when it has
\* no dot or only a leading one
file_stem(path) ==
    LET f == file_name(path)
    IN IF ~f.some THEN None
       ELSE IF LastDot(f.v) <= 1 THEN Some(f.v)
       ELSE Some(SubSeq(f.v, 1, LastDot(f.v) - 1))

\* Path::extension: what follows the last dot, when a stem precedes it
extension(path) ==
    LET f == file_name(path)
    IN IF ~f.some THEN None
       ELSE IF LastDot(f.v) <= 1 THEN None
       ELSE Some(SubSeq(f.v, LastDot(f.v) + 1, Len(f.v)))

\* OsStr::to_str: None when the bytes are not valid UTF-8
to_str(os) ==
    IF \E i \in 1..Len(os) : os[i] = BAD THEN None ELSE Some(os)

\* Path::with_file_name: replace the file name, or push when there is none
with_file_name(path, name) ==
    IF file_name(path).some THEN Append(Front(path), name)
    ELSE Append(path, name)

----------------------------------------------------------------------------
(* Text *)

DragHere == <<"Drag an image here">>
Processing == <<"Processing...">>
ProcessedAndSaved == <<"Image processed and saved">>
OnlyImages == <<"Error: only images are supported">>

\* the Display text of the errors image::open and DynamicImage::save return
DecodeReasons == {"Format error decoding Png", "No such file or directory (os error 2)"}
SaveReasons == {"Permission denied (os error 13)"}

\* main.rs:148  format!("Image cannot be oppened: {}", e)
DecodeError(e) == <<"Image cannot be oppened: ", e>>

\* the save error passed on without its label
SaveError_unlabelled(e) == <<e>>

\* main.rs:187  format!("No se pudo guardar la imagen: {}", e)
SaveError(e) == <<"No se pudo guardar la imagen: ", e>>

\* main.rs:92  format!("Error: {}", error_message)
ErrorMessage(error_message) == <<"Error: ">> \o error_message

----------------------------------------------------------------------------
(* Images *)

NoImage == [width |-> 0, height |-> 0, pixels |-> "none"]
Decoded(d) == [width |-> d[1], height |-> d[2], pixels |-> "decoded"]
Partial == [width |-> 0, height |-> 0, pixels |-> "partial"]

dimensions(img) == <<img.width, img.height>>

\* the classifier with its upper threshold taken inclusively
target_dimensions_inclusive(width, height) ==
    IF width >= 300 \/ height >= 300 THEN <<300, 300>>
    ELSE IF width <= 200 /\ height <= 200 THEN <<width, height>>
    ELSE <<200, 200>>

\* the classifier with its two target sizes exchanged
target_dimensions_exchanged(width, height) ==
    IF width > 300 \/ height > 300 THEN <<200, 200>>
    ELSE IF width <= 200 /\ height <= 200 THEN <<width, height>>
    ELSE <<300, 300>>

\* the classifier keeping every image of at most 300 x 300 as it is
target_dimensions_keep_300(width, height) ==
    IF width > 300 \/ height > 300 THEN <<300, 300>>
    ELSE <<width, height>>

\* main.rs:154-160
target_dimensions(width, height) ==
    IF width > 300 \/ height > 300 THEN <<300, 300>>
    ELSE IF width <= 200 /\ height <= 200 THEN <<width, height>>
    ELSE <<200, 200>>

\* DynamicImage::resize_exact with FilterType::Lanczos3: a new buffer of
\* exactly the requested size
resize_exact(img, nwidth, nheight) ==
    [width |-> nwidth, height |-> nheight, pixels |-> "lanczos3"]

\* the resampler comparing the widths alone
processed_img_by_width(img, target) ==
    IF img.width = target[1] THEN img
    ELSE resize_exact(img, target[1], target[2])

\* main.rs:162-171
processed_img(img, target) ==
    IF dimensions(img) = target THEN img
    ELSE resize_exact(img, target[1], target[2])

----------------------------------------------------------------------------
(* Output path, main.rs:174-182 *)

\* main.rs:174-178  file_stem().unwrap_or_default().to_str().unwrap_or("image")
original_stem(path) ==
    LET stem == IF file_stem(path).some THEN file_stem(path).v ELSE <<>>
    IN IF to_str(stem).some THEN to_str(stem).v ELSE <<"image">>

\* main.rs:180  extension().and_then(|s| s.to_str()).unwrap_or("png")
extension_or_png(path) ==
    LET e == extension(path)
    IN IF e.some /\ to_str(e.v).some THEN to_str(e.v).v ELSE <<"png">>

\* the file name with the extension fixed to png
new_filename_png(path) ==
    original_stem(path) \o <<"_processed", DOT, "png">>

\* main.rs:181  format!("{}_processed.{}", original_stem, extension)
new_filename(path) ==
    original_stem(path) \o <<"_processed", DOT>> \o extension_or_png(path)

\* the output path being the input path itself
new_path_in_place(path) == path

\* main.rs:182
new_path(path) == with_file_name(path, new_filename(path))

----------------------------------------------------------------------------
(* The extension gate, main.rs:130-131 *)

AcceptedExtensions == {<<"png">>, <<"jpg">>, <<"jpeg">>, <<"bmp">>, <<"webp">>}

\* the gate comparing the extension without regard to case
Lower(a) == IF a = "PNG" THEN "png" ELSE a
accepted_ignoring_case(path) ==
    LET e == extension(path)
    IN e.some /\ to_str(e.v).some
       /\ [i \in 1..Len(e.v) |-> Lower(e.v[i])] \in AcceptedExtensions

accepted(path) ==
    LET e == extension(path)
    IN e.some /\ to_str(e.v).some /\ to_str(e.v).v \in AcceptedExtensions

----------------------------------------------------------------------------
(* Inputs *)

Dir == <<"covers">>

\* paths the window can report as dropped
FOO_PNG == <<Dir, <<"foo", DOT, "png">>>>
FOO_UPPER == <<Dir, <<"foo", DOT, "PNG">>>>
FOO_NOEXT == <<Dir, <<"foo">>>>
FOO_TXT == <<Dir, <<"foo", DOT, "txt">>>>
BAD_JPG == <<Dir, <<BAD, DOT, "jpg">>>>
HIDDEN_PNG == <<Dir, <<DOT, "png">>>>
BAD_EXT == <<Dir, <<"foo", DOT, BAD>>>>
A_JPEG == <<Dir, <<"a", DOT, "jpeg">>>>
A_BMP == <<Dir, <<"a", DOT, "bmp">>>>
A_WEBP == <<Dir, <<"a", DOT, "webp">>>>
DropPaths == {FOO_PNG, FOO_UPPER, FOO_NOEXT, FOO_TXT, BAD_JPG, HIDDEN_PNG, BAD_EXT,
              A_JPEG, A_BMP, A_WEBP, new_path(FOO_PNG), <<Dir, ParentDir>>}

\* (width, height) of the files found on disk
AppDims == {<<500, 400>>, <<150, 100>>}

\* the inputs of process_image taken as a function of its path alone
Atom == {DOT, "foo", "png", "PNG", BAD}
Names == UNION {[1..n -> Atom] : n \in 1..MaxNameLen} \ {<<DOT>>}
FnPaths == {<<Dir, n>> : n \in Names} \cup {<<RootDir>>, <<>>}
Side == {150, 200, 201, 300, 301, 500}
FnDims == Side \X Side

----------------------------------------------------------------------------
(* State *)

JobIds == 1..MaxJobs

\* Result<PathBuf, String>: path is the payload of Ok, text that of Err
NoResult == [kind |-> "none", path |-> <<>>, text |-> <<>>]
Ok(path) == [kind |-> "Ok", path |-> path, text |-> <<>>]
Err(text) == [kind |-> "Err", path |-> <<>>, text |-> text]

NoJob == [pc |-> "none", path |-> <<>>, img |-> NoImage, target |-> <<0, 0>>,
          processed_img |-> NoImage, result |-> NoResult]

\* the job positions: the FileDropped message is in flight; process_image
\* is spawned; it has decoded and resampled; it has returned and the
\* ImageProcessed message is in flight; update has handled that message
Unresolved == {"FileDropped", "process_image", "resampled", "ImageProcessed"}
InFlight == {"process_image", "resampled", "ImageProcessed"}

\* Application::new, main.rs:42-51
Init ==
    /\ message = DragHere
    /\ processed_image = None
    /\ is_processing = FALSE
    /\ jobs = [j \in JobIds |-> NoJob]
    /\ fs = <<>>

FreeSlots == {j \in JobIds : jobs[j].pc = "none"}
NextSlot == CHOOSE j \in FreeSlots : \A k \in FreeSlots : j <= k

----------------------------------------------------------------------------
(* update, main.rs:63-96, and handle_file_drop, main.rs:128-140 *)

\* Command::perform(async { path }, Message::FileDropped)
PerformFileDropped(path) ==
    jobs' = [jobs EXCEPT ![NextSlot] = [NoJob EXCEPT !.pc = "FileDropped", !.path = path]]

\* the extension being looked at before is_processing
handle_file_drop_extension_first(path) ==
    IF accepted(path)
    THEN IF ~is_processing
         THEN /\ PerformFileDropped(path)
              /\ UNCHANGED <<message, processed_image, is_processing, fs>>
         ELSE UNCHANGED vars
    ELSE /\ message' = OnlyImages
         /\ UNCHANGED <<processed_image, is_processing, jobs, fs>>

handle_file_drop(path) ==
    IF ~is_processing
    THEN IF accepted(path)
         THEN /\ PerformFileDropped(path)
              /\ UNCHANGED <<message, processed_image, is_processing, fs>>
         ELSE /\ message' = OnlyImages
              /\ UNCHANGED <<processed_image, is_processing, jobs, fs>>
    ELSE UNCHANGED vars

\* Message::EventOccurred carrying a window FileDropped event
UpdateEventOccurred(path) ==
    /\ (~is_processing /\ accepted(path)) => FreeSlots # {}
    /\ handle_file_drop(path)

\* Message::EventOccurred carrying any other event
UpdateOtherEvent == UNCHANGED vars

\* Message::FileDropped(path)
UpdateFileDropped(j) ==
    /\ jobs[j].pc = "FileDropped"
    /\ is_processing' = TRUE
    /\ processed_image' = None
    /\ message' = Processing
    /\ jobs' = [jobs EXCEPT ![j].pc = "process_image"]
    /\ UNCHANGED fs

\* the handler with the Err arm leaving is_processing set
UpdateImageProcessed_err_keeps_flag(j) ==
    /\ jobs[j].pc = "ImageProcessed"
    /\ IF jobs[j].result.kind = "Ok"
       THEN /\ is_processing' = FALSE
            /\ message' = ProcessedAndSaved
            /\ processed_image' = Some(jobs[j].result.path)
       ELSE /\ message' = ErrorMessage(jobs[j].result.text)
            /\ UNCHANGED <<processed_image, is_processing>>
    /\ jobs' = [jobs EXCEPT ![j] = [NoJob EXCEPT !.pc = "handled"]]
    /\ UNCHANGED fs

\* Message::ImageProcessed(Ok(path)) and Message::ImageProcessed(Err(error_message))
UpdateImageProcessed(j) ==
    /\ jobs[j].pc = "ImageProcessed"
    /\ is_processing' = FALSE
    /\ IF jobs[j].result.kind = "Ok"
       THEN /\ message' = ProcessedAndSaved
            /\ processed_image' = Some(jobs[j].result.path)
       ELSE /\ message' = ErrorMessage(jobs[j].result.text)
            /\ UNCHANGED processed_image
    /\ jobs' = [jobs EXCEPT ![j] = [NoJob EXCEPT !.pc = "handled"]]
    /\ UNCHANGED fs

----------------------------------------------------------------------------
(* process_image, main.rs:144-189 *)

\* process_image returns: its locals are dropped and the result travels in
\* the ImageProcessed message
Return(j, result) ==
    jobs' = [jobs EXCEPT ![j] = [NoJob EXCEPT !.pc = "ImageProcessed", !.result = result]]

\* what image::open can give for the file at path: a file this program
\* saved decodes to what was saved, any other file to any of dims
Readable(path, dims) ==
    IF path \in DOMAIN fs
    THEN IF fs[path] = Partial THEN {} ELSE {dimensions(fs[path])}
    ELSE dims

\* main.rs:152-171: classify and resample the decoded image
Resize(job, img) ==
    LET target == target_dimensions(img.width, img.height)
    IN [job EXCEPT !.pc = "resampled",
                   !.img = img,
                   !.target = target,
                   !.processed_img = processed_img(img, target)]

\* the decode step going on with an empty image when image::open fails
Decode_falls_through(j, dims) ==
    /\ jobs[j].pc = "process_image"
    /\ \/ \E d \in Readable(jobs[j].path, dims) :
             jobs' = [jobs EXCEPT ![j] = Resize(jobs[j], Decoded(d))]
       \/ jobs' = [jobs EXCEPT ![j] = Resize(jobs[j], NoImage)]
    /\ UNCHANGED <<message, processed_image, is_processing, fs>>

\* main.rs:146-171: open the file and, when it decodes, classify and
\* resample it; nothing but the job itself sees the steps in between
Decode(j, dims) ==
    /\ jobs[j].pc = "process_image"
    /\ \/ \E d \in Readable(jobs[j].path, dims) :
             jobs' = [jobs EXCEPT ![j] = Resize(jobs[j], Decoded(d))]
       \/ \E e \in DecodeReasons : Return(j, Err(DecodeError(e)))
    /\ UNCHANGED <<message, processed_image, is_processing, fs>>

\* the save step returning the path it was given
Save_returns_input(j) ==
    /\ jobs[j].pc = "resampled"
    /\ LET out == new_path(jobs[j].path)
       IN \/ /\ fs' = (out :> jobs[j].processed_img) @@ fs
             /\ Return(j, Ok(jobs[j].path))
          \/ /\ \E e \in SaveReasons : Return(j, Err(SaveError(e)))
             /\ fs' \in {fs, (out :> Partial) @@ fs}
    /\ UNCHANGED <<message, processed_image, is_processing>>

\* main.rs:174-188; a save that fails leaves no file or a partial one
Save(j) ==
    /\ jobs[j].pc = "resampled"
    /\ LET out == new_path(jobs[j].path)
       IN \/ /\ fs' = (out :> jobs[j].processed_img) @@ fs
             /\ Return(j, Ok(out))
          \/ /\ \E e \in SaveReasons : Return(j, Err(SaveError(e)))
             /\ fs' \in {fs, (out :> Partial) @@ fs}
    /\ UNCHANGED <<message, processed_image, is_processing>>

----------------------------------------------------------------------------
(* Specifications *)

Next ==
    \/ \E path \in DropPaths : UpdateEventOccurred(path)
    \/ UpdateOtherEvent
    \/ \E j \in JobIds : UpdateFileDropped(j)
    \/ \E j \in JobIds : Decode(j, AppDims)
    \/ \E j \in JobIds : Save(j)
    \/ \E j \in JobIds : UpdateImageProcessed(j)

Spec == Init /\ [][Next]_vars

\* a step of a spawned future or the delivery of a message a future produced
Progress ==
    \E j \in JobIds :
        \/ UpdateFileDropped(j)
        \/ Decode(j, AppDims)
        \/ Save(j)
        \/ UpdateImageProcessed(j)

\* the executor and the runtime do not stop while a future can run or a
\* message is waiting to be delivered
Fairness == WF_vars(Progress)

FairSpec == Init /\ [][Next]_vars /\ Fairness

\* process_image called on any path: the job is spawned at once
InitFn ==
    /\ message = Processing
    /\ processed_image = None
    /\ is_processing = TRUE
    /\ \E path \in FnPaths :
          jobs = [j \in JobIds |->
                    IF j = 1 THEN [NoJob EXCEPT !.pc = "process_image", !.path = path]
                    ELSE NoJob]
    /\ fs = <<>>

NextFn ==
    \/ \E j \in JobIds : Decode(j, FnDims)
    \/ \E j \in JobIds : Save(j)

SpecFn == InitFn /\ [][NextFn]_vars

----------------------------------------------------------------------------
(* Properties *)

NoUnresolved == \A j \in JobIds : jobs[j].pc \notin Unresolved

\* the file name of path is a non-empty stem, a dot, and one of exts
HasExtensionIn(path, exts) ==
    /\ path # <<>>
    /\ \E k \in 2..Len(Last(path)) :
          /\ Last(path)[k] = DOT
          /\ SubSeq(Last(path), k + 1, Len(Last(path))) \in exts

\* C1: in every reachable state at most one process_image job has been
\* started by update and not yet resolved by its ImageProcessed message.
AtMostOneJobInFlight ==
    Cardinality({j \in JobIds : jobs[j].pc \in InFlight}) <= 1

\* C2: a path dropped while an accepted request is unresolved (from its
\* acceptance by handle_file_drop until its ImageProcessed message is
\* handled) changes nothing: message, processed_image and is_processing
\* stay as they are and no FileDropped message is scheduled.
DropWhileUnresolvedIsDiscarded ==
    [][\A path \in DropPaths :
          ((\E j \in JobIds : jobs[j].pc \in Unresolved) /\ UpdateEventOccurred(path))
              => UNCHANGED <<message, processed_image, is_processing, jobs>>]_vars

\* C3: with no request unresolved, handle_file_drop schedules a FileDropped
\* message for the dropped path exactly when its extension is one of png,
\* jpg, jpeg, bmp, webp as written; otherwise no job starts, is_processing
\* stays false and the status becomes "Error: only images are supported".
ExtensionGate ==
    [][\A path \in DropPaths :
          (NoUnresolved /\ UpdateEventOccurred(path)) =>
              IF HasExtensionIn(path, {<<"png">>, <<"jpg">>, <<"jpeg">>, <<"bmp">>, <<"webp">>})
              THEN /\ \E j \in JobIds :
                         /\ jobs[j].pc = "none"
                         /\ jobs' = [jobs EXCEPT ![j] =
                                        [NoJob EXCEPT !.pc = "FileDropped", !.path = path]]
                   /\ UNCHANGED <<message, processed_image, is_processing>>
              ELSE /\ jobs' = jobs
                   /\ is_processing' = FALSE
                   /\ message' = OnlyImages]_vars

\* a drop was rejected after the first job had been resolved
RejectedWhenIdle ==
    /\ message = OnlyImages
    /\ ~is_processing
    /\ NoUnresolved
    /\ jobs[1].pc = "handled"

\* C4: the target dimensions process_image computes from the decoded
\* (width, height) are (300, 300) when either exceeds 300, the decoded
\* dimensions when both are at most 200, and (200, 200) in every other case.
ClassifierMatchesReference ==
    \A j \in JobIds :
        jobs[j].pc = "resampled" =>
            LET w == jobs[j].img.width
                h == jobs[j].img.height
            IN /\ (w > 300 \/ h > 300) => jobs[j].target = <<300, 300>>
               /\ (w <= 200 /\ h <= 200) => jobs[j].target = <<w, h>>
               /\ (w <= 300 /\ h <= 300 /\ (w > 200 \/ h > 200)) => jobs[j].target = <<200, 200>>

\* a 300 x 201 image, on the boundary of both thresholds, was classified
ClassifiedOnBoundary ==
    /\ jobs[1].pc = "resampled"
    /\ dimensions(jobs[1].img) = <<300, 201>>
    /\ jobs[1].target = <<200, 200>>

\* C5: the image handed to the save step is the decoded image itself, not
\* resampled, exactly when the decoded dimensions equal the target; in
\* every other case it is a resampled image of exactly the target
\* dimensions; and that image is what a successful save writes.
ResamplerContract ==
    [][\A j \in JobIds :
          /\ (jobs[j].pc = "process_image" /\ jobs'[j].pc = "resampled") =>
                LET img == jobs'[j].img
                    out == jobs'[j].processed_img
                IN /\ (dimensions(img) = jobs'[j].target) <=> (out = img)
                   /\ (dimensions(img) = jobs'[j].target) => out.pixels = "decoded"
                   /\ (dimensions(img) # jobs'[j].target) =>
                         /\ dimensions(out) = jobs'[j].target
                         /\ out.pixels = "lanczos3"
          /\ (jobs[j].pc = "resampled" /\ jobs'[j].result.kind = "Ok") =>
                fs'[jobs'[j].result.path] = jobs[j].processed_img]_vars

\* a 150 x 200 image went through unchanged and was saved
PassedThroughAndSaved ==
    /\ jobs[1].pc = "ImageProcessed"
    /\ jobs[1].result.kind = "Ok"
    /\ fs[jobs[1].result.path] = Decoded(<<150, 200>>)

\* C6: for an input path whose file name is stem S, a dot and extension E
\* (both text), the output path is S_processed.E in the directory of the
\* input, and it is the only path the save step writes.
OutputPathDerivation ==
    [][\A j \in JobIds :
          (jobs[j].pc = "resampled" /\ jobs'[j].pc = "ImageProcessed"
             /\ jobs[j].path # <<>>) =>
              LET path == jobs[j].path
                  name == Last(path)
              IN \A k \in 2..Len(name) :
                    LET S == SubSeq(name, 1, k - 1)
                        E == SubSeq(name, k + 1, Len(name))
                        out == Append(Front(path), S \o <<"_processed", DOT>> \o E)
                    IN (/\ name[k] = DOT
                        /\ \A i \in (k + 1)..Len(name) : name[i] # DOT
                        /\ \A i \in 1..Len(name) : name[i] # BAD
                        /\ name # ParentDir
                        /\ name # RootDir) =>
                          /\ DOMAIN fs' \subseteq DOMAIN fs \cup {out}
                          /\ jobs'[j].result.kind = "Ok" =>
                                /\ jobs'[j].result.path = out
                                /\ out \in DOMAIN fs'
                                /\ fs'[out] = jobs[j].processed_img
                          /\ path = FOO_PNG =>
                                out = <<Dir, <<"foo", "_processed", DOT, "png">>>>]_vars

\* foo.PNG was saved as foo_processed.PNG beside it
SavedBesideInput ==
    /\ jobs[1].pc = "ImageProcessed"
    /\ jobs[1].result.kind = "Ok"
    /\ jobs[1].result.path = <<Dir, <<"foo", "_processed", DOT, "PNG">>>>
    /\ <<Dir, <<"foo", "_processed", DOT, "PNG">>>> \in DOMAIN fs

\* the path has a file name: it is not empty and does not end in / or ..
HasName(path) == path # <<>> /\ Last(path) # RootDir /\ Last(path) # ParentDir

\* where a file name splits into stem and extension: at its last dot,
\* unless that dot is its first byte
SplitAt(name) ==
    {k \in 2..Len(name) : name[k] = DOT /\ \A i \in (k + 1)..Len(name) : name[i] # DOT}

IsText(s) == \A i \in 1..Len(s) : s[i] # BAD

SuccessOutcome ==
    [][\A j \in JobIds :
          /\ (jobs[j].pc = "resampled" /\ jobs'[j].result.kind = "Ok") =>
                /\ jobs'[j].result.path = new_path(jobs[j].path)
                /\ jobs[j].path = FOO_PNG =>
                      jobs'[j].result.path = <<Dir, <<"foo", "_processed", DOT, "png">>>>
                /\ fs'[jobs'[j].result.path] = jobs[j].processed_img
                /\ dimensions(jobs[j].img) = <<500, 400>> =>
                      dimensions(fs'[jobs'[j].result.path]) = <<300, 300>>
          /\ (jobs[j].pc = "ImageProcessed" /\ jobs[j].result.kind = "Ok"
                /\ jobs'[j].pc = "handled") =>
                /\ message' = ProcessedAndSaved
                /\ processed_image' = Some(jobs[j].result.path)
                /\ is_processing' = FALSE]_vars

\* foo.png, decoded as 500 x 400, was saved as 300 x 300 and its outcome handled
SuccessShown ==
    /\ message = ProcessedAndSaved
    /\ ~is_processing
    /\ processed_image = Some(<<Dir, <<"foo", "_processed", DOT, "png">>>>)
    /\ jobs[1].pc = "handled"
    /\ jobs[2].pc = "none"
    /\ dimensions(fs[<<Dir, <<"foo", "_processed", DOT, "png">>>>]) = <<300, 300>>

\* C9: a job leaves the decode step either with a decoded image or, when
\* decoding fails, with an Err outcome at once: nothing classified, nothing
\* resampled, the files as they were; and every write to the files is the
\* save step of a job that has decoded its image.
DecodeFailureSkipsRest ==
    [][/\ \A j \in JobIds :
             (jobs[j].pc = "process_image" /\ jobs'[j].pc # "process_image") =>
                 \/ /\ jobs'[j].pc = "resampled"
                    /\ jobs'[j].img.pixels = "decoded"
                    /\ fs' = fs
                 \/ /\ jobs'[j].pc = "ImageProcessed"
                    /\ jobs'[j].result.kind = "Err"
                    /\ jobs'[j].result.text[1] = "Image cannot be oppened: "
                    /\ jobs'[j].target = <<0, 0>>
                    /\ jobs'[j].processed_img = NoImage
                    /\ fs' = fs
       /\ fs' # fs =>
             \E j \in JobIds :
                 /\ jobs[j].pc = "resampled"
                 /\ jobs[j].img.pixels = "decoded"
                 /\ jobs'[j].pc = "ImageProcessed"]_vars

\* the first job failed to decode and no file has been written
DecodeFailed ==
    /\ jobs[1].pc = "ImageProcessed"
    /\ jobs[1].result.kind = "Err"
    /\ jobs[1].result.text[1] = "Image cannot be oppened: "
    /\ fs = <<>>

\* C10: under fair scheduling every accepted request and every started job
\* is eventually resolved by update handling its ImageProcessed message,
\* is_processing always returns to false, a started job is never cancelled
\* or restarted, and once nothing is unresolved a dropped image is accepted.
EveryJobResolves ==
    /\ \A j \in JobIds : (jobs[j].pc \in Unresolved) ~> (jobs[j].pc = "handled")
    /\ is_processing ~> ~is_processing
    /\ [][\A j \in JobIds :
             /\ jobs[j].pc \in InFlight => jobs'[j].pc \in InFlight \cup {"handled"}
             /\ jobs[j].pc = "handled" => jobs'[j].pc = "handled"]_vars
    /\ [][(NoUnresolved /\ UpdateEventOccurred(FOO_PNG)) =>
             \E j \in JobIds : jobs[j].pc = "none" /\ jobs'[j].pc = "FileDropped"]_vars

\* both jobs ran and were resolved, the second one with an image
AllResolved ==
    /\ jobs[1].pc = "handled"
    /\ jobs[2].pc = "handled"
    /\ ~is_processing
    /\ processed_image.some

\* the underlying reason an error text ends with
Reason(text) == text[Len(text)]

\* C11: when update handles the outcome of a job whose decoding failed
\* with reason R, the job is resolved and the status becomes
\* "Error: Image cannot be opened: R".
DecodeFailureShown ==
    [][\A j \in JobIds :
          (/\ jobs[j].pc = "ImageProcessed"
           /\ jobs[j].result.kind = "Err"
           /\ Reason(jobs[j].result.text) \in DecodeReasons
           /\ jobs'[j].pc = "handled") =>
              /\ message' = <<"Error: ", "Image cannot be opened: ", Reason(jobs[j].result.text)>>
              /\ is_processing' = FALSE]_vars

\* C12 as claimed: when update handles the outcome of a job whose save
\* failed with reason R, the status becomes "Error: R".
SaveFailureShownBare ==
    [][\A j \in JobIds :
          (/\ jobs[j].pc = "ImageProcessed"
           /\ jobs[j].result.kind = "Err"
           /\ Reason(jobs[j].result.text) \in SaveReasons
           /\ jobs'[j].pc = "handled") =>
              message' = <<"Error: ", Reason(jobs[j].result.text)>>]_vars

\* C12 as amended: when update handles the outcome of a job whose save
\* failed with reason R, the job is resolved and the status becomes
\* "Error: No se pudo guardar la imagen: R".
SaveFailureShown ==
    [][\A j \in JobIds :
          (/\ jobs[j].pc = "ImageProcessed"
           /\ jobs[j].result.kind = "Err"
           /\ Reason(jobs[j].result.text) \in SaveReasons
           /\ jobs'[j].pc = "handled") =>
              /\ message' = <<"Error: ", "No se pudo guardar la imagen: ",
                              Reason(jobs[j].result.text)>>
              /\ is_processing' = FALSE
              /\ UNCHANGED processed_image]_vars

\* the only job failed to save and its outcome is shown
SaveFailureOnScreen ==
    /\ message = <<"Error: ", "No se pudo guardar la imagen: ",
                   "Permission denied (os error 13)">>
    /\ ~is_processing
    /\ jobs[1].pc = "handled"
    /\ jobs[2].pc = "none"

\* C13 as claimed: neither target dimension exceeds the decoded dimension
\* it replaces, and both are equal to it when nothing is resized.
NeverEnlarges ==
    \A j \in JobIds :
        jobs[j].pc = "resampled" =>
            /\ jobs[j].target[1] <= jobs[j].img.width
            /\ jobs[j].target[2] <= jobs[j].img.height
            /\ jobs[j].processed_img = jobs[j].img => jobs[j].target = dimensions(jobs[j].img)

Max(a, b) == IF a >= b THEN a ELSE b

\* C13 as amended: neither target dimension exceeds the larger of the
\* decoded width and height, and both are equal to the decoded dimensions
\* when nothing is resized.
NeverExceedsLargerSide ==
    \A j \in JobIds :
        jobs[j].pc = "resampled" =>
            /\ jobs[j].target[1] <= Max(jobs[j].img.width, jobs[j].img.height)
            /\ jobs[j].target[2] <= Max(jobs[j].img.width, jobs[j].img.height)
            /\ jobs[j].processed_img = jobs[j].img => jobs[j].target = dimensions(jobs[j].img)

\* a 150 x 201 image was classified to 200 x 200, wider than it was
WidthEnlarged ==
    /\ jobs[1].pc = "resampled"
    /\ dimensions(jobs[1].img) = <<150, 201>>
    /\ jobs[1].target = <<200, 200>>

\* C14: the save step of a job returns a path other than the path the job
\* was given and leaves the file at the given path as it was.
OutputIsNotInput ==
    [][\A j \in JobIds :
          (jobs[j].pc = "resampled" /\ jobs'[j].pc = "ImageProcessed") =>
              /\ jobs'[j].result.kind = "Ok" => jobs'[j].result.path # jobs[j].path
              /\ (jobs[j].path \in DOMAIN fs') <=> (jobs[j].path \in DOMAIN fs)
              /\ jobs[j].path \in DOMAIN fs => fs'[jobs[j].path] = fs[jobs[j].path]]_vars

\* foo_processed.png, saved by the first job, was the input of the second,
\* which saved beside it
ProcessedFileReprocessed ==
    /\ <<Dir, <<"foo", "_processed", DOT, "png">>>> \in DOMAIN fs
    /\ fs[<<Dir, <<"foo", "_processed", DOT, "png">>>>] # Partial
    /\ <<Dir, <<"foo", "_processed", "_processed", DOT, "png">>>> \in DOMAIN fs

\* C15: is_processing is true exactly when some job has been started by
\* update handling its FileDropped message and the ImageProcessed message
\* of that job has not been handled yet.
FlagTracksLifecycle ==
    is_processing <=> (\E j \in JobIds : jobs[j].pc \in InFlight)

\* C16: whenever is_processing is true the status is "Processing..." and
\* processed_image is None, and a step that starts and ends with
\* is_processing true changes neither of them.
ProcessingShownWhileFlagSet ==
    [][/\ is_processing' => (message' = Processing /\ processed_image' = None)
       /\ (is_processing /\ is_processing') => UNCHANGED <<message, processed_image>>]_vars

\* the outcome of one job has been shown and replaced by "Processing..."
\* when the FileDropped message of the other job was handled
ProcessingShownAgain ==
    /\ is_processing
    /\ message = Processing
    /\ processed_image = None
    /\ \E j \in JobIds : jobs[j].pc = "handled"
    /\ \E j \in JobIds : jobs[j].pc \in InFlight

\* C17: right after update handles ImageProcessed(Err(_)) processed_image
\* is None.
NoImageAfterFailure ==
    [][\A j \in JobIds :
          (/\ jobs[j].pc = "ImageProcessed"
           /\ jobs[j].result.kind = "Err"
           /\ jobs'[j].pc = "handled") => processed_image' = None]_vars

\* C18 as claimed: the target of a decoded image is classified to itself,
\* and a file this program saved is decoded and passed through without
\* being resized.
ClassifierIdempotent ==
    [][\A j \in JobIds :
          (jobs[j].pc = "process_image" /\ jobs'[j].pc = "resampled") =>
              /\ target_dimensions(jobs'[j].target[1], jobs'[j].target[2]) = jobs'[j].target
              /\ jobs[j].path \in DOMAIN fs =>
                    /\ jobs'[j].target = dimensions(jobs'[j].img)
                    /\ jobs'[j].processed_img = jobs'[j].img]_vars

\* C18 as amended: the target of a decoded image is classified to itself
\* unless it is 300 x 300, which is classified to 200 x 200; a file this
\* program saved is passed through without being resized unless it is
\* 300 x 300, and then it is resized to 200 x 200.
ClassifierIdempotentBelow300 ==
    [][\A j \in JobIds :
          (jobs[j].pc = "process_image" /\ jobs'[j].pc = "resampled") =>
              /\ target_dimensions(jobs'[j].target[1], jobs'[j].target[2]) =
                    IF jobs'[j].target = <<300, 300>> THEN <<200, 200>> ELSE jobs'[j].target
              /\ jobs[j].path \in DOMAIN fs =>
                    IF dimensions(jobs'[j].img) = <<300, 300>>
                    THEN /\ jobs'[j].target = <<200, 200>>
                         /\ jobs'[j].processed_img = resize_exact(jobs'[j].img, 200, 200)
                    ELSE /\ jobs'[j].target = dimensions(jobs'[j].img)
                         /\ jobs'[j].processed_img = jobs'[j].img]_vars

\* foo_processed.png, saved as 300 x 300, was dropped and resized to 200 x 200
ProcessedFileResizedAgain ==
    \E j \in JobIds :
        /\ jobs[j].pc = "resampled"
        /\ jobs[j].path = <<Dir, <<"foo", "_processed", DOT, "png">>>>
        /\ jobs[j].path \in DOMAIN fs
        /\ dimensions(jobs[j].img) = <<300, 300>>
        /\ jobs[j].target = <<200, 200>>

====
